---- MODULE Spec2Model ----
(***************************************************************************)
(* leibniz: a catalog of content fingerprints of the files below a root.   *)
(* The model covers RegexFlag.Match, OpenCatalog, Catalog.EnsureRootId,    *)
(* Catalog.CatalogHash, Catalog.HashAndCatalog, Catalog.Run, fullHash,     *)
(* sampleHash and SmartHash of leibniz.go.                                 *)
(*                                                                         *)
(* Paths are sequences of path components (<<"r","d","f">> is /r/d/f).     *)
(* Byte strings are kept sparse: a length and the set of <<offset, byte>>  *)
(* pairs of the bytes that are not zero, which gives every byte string     *)
(* exactly one representation and keeps files of 512 KiB checkable.        *)
(***************************************************************************)
EXTENDS Integers, Sequences, FiniteSets, TLC

VARIABLES
    pc,          \* where main/Run stands: "open","stat","ensure","walk","done"
    root,        \* Options.root
    excludes,    \* Options.excludes
    includes,    \* Options.includes
    order,       \* the order in which Readdir lists the entries of a directory
    schema,      \* the catalog file holds the tables and indexes
    roots,       \* table roots: rows [id, root]
    files,       \* table files: rows [root_id, hash, path, mtime], in insertion order
    rootId,      \* Run's rootId
    fileQ,       \* Run's fileQ
    err,         \* what Run returned (or what main panicked with)
    base,        \* history: the tables when the current process started
    last,        \* history: the step taken last, with the inputs the environment chose
    opened,      \* history: the paths os.Open was called on by this process
    hashed,      \* history: the paths SmartHash was called on by this process
    denied,      \* history: the files whose os.Open was refused permission
    lostRows,    \* history: the files whose INSERT into files failed
    issued,      \* history: <<root, id>> for every id EnsureRootId has returned
    ensureCalls, \* history: EnsureRootId calls of this process
    runs,        \* history: processes started against this catalog so far
    hfile,       \* singleton: the file handed to SmartHash
    hfails,      \* singleton: which of its reads fail with an I/O error
    hres         \* singleton: what SmartHash returned for it

optVars == <<root, excludes, includes, order>>

dbVars == <<schema, roots, files>>

histVars == <<base, opened, hashed, denied, lostRows, issued, ensureCalls, runs>>

walkVars == <<pc, optVars, dbVars, rootId, fileQ, err, last, histVars>>

hashVars == <<hfile, hfails, hres>>

vars == <<walkVars, hashVars>>

(***************************************************************************)
(* Bounds of the model.                                                    *)
(***************************************************************************)
\* Levels of the scanned tree below /r.
MaxDepth == 2
\* Patterns per filter set (-exclude and -include flags given).
MaxPatterns == 1
\* Processes run one after the other against the same catalog.
MaxRuns == 2

(***************************************************************************)
(* Program constants.                                                      *)
(***************************************************************************)
\* 512*1024, the threshold HashAndCatalog and singleton hand to SmartHash.
Threshold == 524288
\* make([]byte, 1024): the size of one sample; also the 1024 of size - 1024.
WindowSize == 1024

(***************************************************************************)
(* The file system under scan.                                             *)
(***************************************************************************)
Names == {"d", "f", "g", "s"}

Max(a, b) == IF a > b THEN a ELSE b
Min(a, b) == IF a < b THEN a ELSE b

Last(p) == p[Len(p)]

\* path.Dir
Dir(p) == SubSeq(p, 1, Len(p) - 1)

\* path.Join(context, name)
Join(context, name) == Append(context, name)

\* /r is a directory; below it every d is a directory holding d, f, g and s,
\* down to MaxDepth levels (the directories of the last level are empty).
Exists(p) ==
    /\ Len(p) >= 1
    /\ Len(p) <= MaxDepth + 1
    /\ p[1] = "r"
    /\ \A i \in 2..Len(p) : p[i] \in Names
    /\ \A i \in 2..(Len(p) - 1) : p[i] = "d"

\* os.FileInfo.IsDir / Mode().IsRegular of an entry: f and g are regular files,
\* s is a symbolic link (Readdir reports entries as Lstat does).
Kind(p) ==
    CASE Len(p) = 1 -> "dir"
      [] Last(p) = "d" -> "dir"
      [] Last(p) \in {"f", "g"} -> "reg"
      [] OTHER -> "other"

IsDir(p) == Kind(p) = "dir"

IsRegular(p) == Kind(p) = "reg"

\* The orders Readdir may list a directory in (file-system order).
ListingOrders ==
    { <<"d", "f", "g", "s">>, <<"s", "g", "f", "d">>, <<"g", "d", "s", "f">> }

\* dir.Readdir(0) of directory p, as the full paths of its entries.
Readdir(p, ord) ==
    IF Len(p) <= MaxDepth THEN [i \in 1..Len(ord) |-> Join(p, ord[i])] ELSE << >>

\* What Readdir reports of a regular file and what the file holds: the size
\* in its FileInfo and its bytes.  The files f are small; the files g are at the
\* threshold at the first level and above it below that.
FileOf(p) ==
    CASE Last(p) = "f" -> [size |-> Len(p), data |-> {<<0, Len(p)>>}]
      [] Len(p) = 2 ->
           [size |-> Threshold,
            data |-> {<<0, 1>>, <<Threshold \div 2, 2>>, <<Threshold - 1, 3>>, <<5000, 9>>}]
      [] OTHER ->
           [size |-> Threshold + Len(p), data |-> {<<(Threshold + Len(p)) \div 2, Len(p)>>}]

\* The lengths a file listed with that size may have when it is read: the
\* same, or, cut in between, ten bytes less or one sample in all.
LengthsAtRead(size) ==
    IF size < Threshold THEN {size} ELSE {size, size - 10, WindowSize}

\* The file of FileOf(p) when it is read with length ln.
FileAt(p, ln) ==
    [size |-> FileOf(p).size, len |-> ln,
     data |-> { x \in FileOf(p).data : x[1] < ln }]

\* FileInfo.ModTime
ModTime(p) == Len(p)

(***************************************************************************)
(* RegexFlag.  A pattern is a regular expression over the full path; the   *)
(* ones used here are /parts... (anywhere in the path, at a component      *)
(* boundary) and /parts...$ (at the end of the path).                      *)
(***************************************************************************)
Patterns ==
    { [parts |-> <<"d">>, tail |-> FALSE],       \* /d(/|$): every d and all below it
      [parts |-> <<"d">>, tail |-> TRUE],        \* /d$: the directories d themselves
      [parts |-> <<"r">>, tail |-> TRUE],        \* /r$: the root alone
      [parts |-> <<"r", "g">>, tail |-> TRUE],   \* /r/g$
      [parts |-> <<"g">>, tail |-> FALSE] }      \* /g(/|$): every g

PatternSets == { S \in SUBSET Patterns : Cardinality(S) <= MaxPatterns }

\* re.MatchString(s): an unanchored search.
MatchString(re, s) ==
    \E i \in 1..Len(s) :
        /\ i + Len(re.parts) - 1 <= Len(s)
        /\ SubSeq(s, i, i + Len(re.parts) - 1) = re.parts
        /\ re.tail => i + Len(re.parts) - 1 = Len(s)

\* RegexFlag.Match
Match(e, s) == \E re \in e : MatchString(re, s)

(***************************************************************************)
(* The fingerprint: fullHash, sampleHash, SmartHash.                       *)
(*                                                                         *)
(* xxhash64 is kept symbolic: a digest is the record [xxh |-> what was     *)
(* written to the hasher], so two digests are equal exactly when the bytes *)
(* written are equal (the hash without its collisions).  What the model    *)
(* computes is therefore which bytes reach the hasher, in which order.     *)
(***************************************************************************)
NoBytes == [len |-> 0, data |-> {}]

\* The bytes of b from offset off on, n of them.
Slice(b, off, n) ==
    [len |-> n,
     data |-> { <<x[1] - off, x[2]>> : x \in { y \in b.data : y[1] >= off /\ y[1] < off + n } }]

\* a followed by b.
Concat(a, b) ==
    [len |-> a.len + b.len,
     data |-> a.data \cup { <<x[1] + a.len, x[2]>> : x \in b.data }]

\* xx.Write(buf)
Write(xx, buf) == Concat(xx, buf)

\* xx.Sum64()
Sum64(xx) == [xxh |-> xx]

\* file.ReadAt(buf, offset) with len(buf) = n.  fail: the read hits an I/O error
\* (nothing is read).  Returns the bytes read into buf and the error: a
\* negative offset is refused, a read that meets the end of the file returns
\* what there is with io.EOF, and buf keeps its zeros past the bytes read.
ReadAt(file, offset, n, fail) ==
    LET avail == Max(0, Min(n, file.len - offset))
    IN  CASE offset < 0 -> [buf |-> Slice(NoBytes, 0, n), err |-> "negative offset"]
          [] fail -> [buf |-> Slice(NoBytes, 0, n), err |-> "input/output error"]
          [] OTHER ->
               [buf |-> [len |-> n, data |-> Slice(file, offset, avail).data],
                err |-> IF avail < n THEN "EOF" ELSE "nil"]

\* binary.Write(buf, binary.LittleEndian, []uint64{sum, uint64(size)}): the 16
\* bytes, kept as the two values they encode.
SizeFolded(sum, size) == [digest |-> sum, size |-> size]

\* fullHash: io.Copy(xx, file) reads the file to its end, whatever size says.
fullHash(file, size, fails) ==
    IF fails[1]
    THEN [err |-> "input/output error", bytes |-> SizeFolded(Sum64(NoBytes), 0)]
    ELSE [err |-> "nil",
          bytes |-> SizeFolded(Sum64(Write(NoBytes, Slice(file, 0, file.len))), size)]

\* offsets of sampleHash
SampleOffsets(size) == <<0, size \div 2, size - WindowSize>>

\* The loop of sampleHash from window i on: xx is the hasher so far.  Returns
\* [ret, err, xx]: ret is set when the loop returned from inside, err is the
\* error of the read made last.
RECURSIVE SampleLoop(_, _, _, _, _)
SampleLoop(file, offsets, fails, i, xx) ==
    LET r == ReadAt(file, offsets[i], WindowSize, fails[i])
    IN  IF r.err = "EOF" /\ i < Len(offsets)
        THEN [ret |-> TRUE, err |-> "Unexpected EOF!", xx |-> xx]
        ELSE IF i = Len(offsets)
             THEN [ret |-> FALSE, err |-> r.err, xx |-> Write(xx, r.buf)]
             ELSE SampleLoop(file, offsets, fails, i + 1, Write(xx, r.buf))

\* sampleHash
sampleHash(file, size, fails) ==
    LET l == SampleLoop(file, SampleOffsets(size), fails, 1, NoBytes)
    IN  CASE l.ret -> [err |-> l.err, bytes |-> SizeFolded(Sum64(NoBytes), 0)]
          [] l.err # "nil" /\ l.err # "EOF" ->
               [err |-> l.err, bytes |-> SizeFolded(Sum64(NoBytes), 0)]
          [] OTHER -> [err |-> "nil", bytes |-> SizeFolded(Sum64(l.xx), size)]

\* The strategy SmartHash selects.
UsesFullHash(size, threshold) == size < threshold

\* SmartHash(file, info, threshold), info.Size() being size.  fails: which
\* reads of the file fail.  Returns [err, sum]; sum is 0 with an error.
SmartHash(file, size, threshold, fails) ==
    LET xxSum == IF UsesFullHash(size, threshold)
                 THEN fullHash(file, size, fails)
                 ELSE sampleHash(file, size, fails)
    IN  IF xxSum.err # "nil"
        THEN [err |-> xxSum.err, sum |-> 0]
        ELSE [err |-> "nil", sum |-> Sum64(xxSum.bytes)]

\* The reads SmartHash makes of a file of that size: one copy or three samples.
ReadFailures(size, threshold) ==
    IF UsesFullHash(size, threshold)
    THEN { <<b>> : b \in BOOLEAN }
    ELSE [1..3 -> BOOLEAN]

(***************************************************************************)
(* The catalog.                                                            *)
(***************************************************************************)
NoErr == [kind |-> "nil", path |-> << >>, msg |-> ""]

Err(kind, p, msg) == [kind |-> kind, path |-> p, msg |-> msg]

NoStep ==
    [op |-> "none", path |-> << >>, open |-> "", list |-> "", len |-> 0,
     fails |-> << >>, hash |-> "", ins |-> ""]

\* The roots a process may be started on: the tree, a directory of it, a
\* regular file, and a path that does not exist.
RootChoices == { <<"r">>, <<"r", "d">>, <<"r", "f">>, <<"x">> }

\* The row id sqlite gives a row inserted without one: the largest so far + 1.
LastInsertId(rows) ==
    IF rows = {} THEN 1
    ELSE (CHOOSE i \in { row.id : row \in rows } :
              \A j \in { row.id : row \in rows } : j <= i) + 1

\* EnsureRootId without its select: a row is inserted on every call.
EnsureRootIdNoLookup(rows, r, db) ==
    CASE db = "select fails" -> [id |-> -1, err |-> "select fails", roots |-> rows]
      [] db = "insert fails" -> [id |-> -1, err |-> "insert fails", roots |-> rows]
      [] OTHER ->
           [id |-> LastInsertId(rows), err |-> "nil",
            roots |-> rows \cup {[id |-> LastInsertId(rows), root |-> r]}]

\* Catalog.EnsureRootId.  db: "ok", or the statement that fails.  Returns
\* [id, err, roots]: the id returned, the error, and the table afterwards.
EnsureRootId(rows, r, db) ==
    LET found == { row \in rows : row.root = r }
    IN  CASE db = "select fails" -> [id |-> -1, err |-> "select fails", roots |-> rows]
          [] found = {} /\ db = "insert fails" ->
               [id |-> -1, err |-> "insert fails", roots |-> rows]
          [] found = {} ->
               [id |-> LastInsertId(rows), err |-> "nil",
                roots |-> rows \cup {[id |-> LastInsertId(rows), root |-> r]}]
          [] OTHER ->
               [id |-> (CHOOSE row \in found : TRUE).id, err |-> "nil", roots |-> rows]

\* fmt.Sprintf("%x", hash): the text of the fingerprint, kept as the value it
\* spells.
HashString(hash) == [hex |-> hash]

\* Catalog.CatalogHash: the table files after the insert.  ins: "ok" or
\* "insert fails" (then -1 and the error are returned and no row is added).
CatalogHash(rows, rid, hash, p, mtime, ins) ==
    IF ins = "ok"
    THEN Append(rows, [root_id |-> rid, hash |-> HashString(hash), path |-> p,
                       mtime |-> mtime])
    ELSE rows

(***************************************************************************)
(* main and Catalog.Run, one action per step.                              *)
(***************************************************************************)
DbOutcomes == {"ok", "select fails", "insert fails"}

OpenOutcomes == {"ok", "permission denied", "input/output error"}

\* OpenCatalog, called by main: the tables and indexes are created unless
\* they exist; any other failure makes main panic.
OpenCatalog ==
    /\ pc = "open"
    /\ \E db \in {"ok", "fails"} :
          IF db = "ok"
          THEN /\ schema' = TRUE
               /\ pc' = "stat"
               /\ err' = NoErr
          ELSE /\ schema' = schema
               /\ pc' = "done"
               /\ err' = Err("open catalog", << >>, "")
    /\ last' = [NoStep EXCEPT !.op = "OpenCatalog"]
    /\ UNCHANGED <<optVars, roots, files, rootId, fileQ, histVars>>
    /\ UNCHANGED hashVars

\* The check of the root without the test of rootInfo.IsDir().
RootCheckNoIsDir(r) ==
    IF ~Exists(r) THEN "no such file or directory" ELSE "nil"

\* What the check of the root at the head of Run returns: "nil" to go on.
RootCheck(r) ==
    CASE ~Exists(r) -> "no such file or directory"
      [] ~IsDir(r) -> "is not a directory"
      [] OTHER -> "nil"

\* Run: os.Stat(root) and rootInfo.IsDir().
RunStat ==
    /\ pc = "stat"
    /\ IF RootCheck(root) = "nil"
       THEN /\ pc' = "ensure"
            /\ err' = NoErr
       ELSE /\ pc' = "done"
            /\ err' = Err("root", root, RootCheck(root))
    /\ last' = [NoStep EXCEPT !.op = "Stat", !.path = root]
    /\ UNCHANGED <<optVars, dbVars, rootId, fileQ, histVars>>
    /\ UNCHANGED hashVars

\* Run: rootId, err := c.EnsureRootId(root), and the queue seeded with the root
\* (WalkerContext{rootInfo, path.Dir(root)}, whose path is the root again).
RunEnsureRootId ==
    /\ pc = "ensure"
    /\ \E db \in DbOutcomes :
          LET e == EnsureRootId(roots, root, db)
          IN  /\ roots' = e.roots
              /\ IF e.err = "nil"
                 THEN /\ rootId' = e.id
                      /\ fileQ' = << Join(Dir(root), Last(root)) >>
                      /\ pc' = "walk"
                      /\ err' = NoErr
                      /\ issued' = issued \cup {<<root, e.id>>}
                 ELSE /\ rootId' = rootId
                      /\ fileQ' = fileQ
                      /\ pc' = "done"
                      /\ err' = Err("ensure root id", root, e.err)
                      /\ issued' = issued
    /\ ensureCalls' = ensureCalls + 1
    /\ last' = [NoStep EXCEPT !.op = "EnsureRootId", !.path = root]
    /\ UNCHANGED <<optVars, schema, files, base, opened, hashed, denied, lostRows, runs>>
    /\ UNCHANGED hashVars

\* The exclusion test applied to files alone, and to directories alone.
ShouldExcludeFilesOnly(ex, realpath) == ~IsDir(realpath) /\ Match(ex, realpath)

ShouldExcludeDirsOnly(ex, realpath) == IsDir(realpath) /\ Match(ex, realpath)

\* c.Opts.excludes.Match(realpath) in the loop over infos: the entry is skipped.
ShouldExclude(ex, realpath) == Match(ex, realpath)

\* The entries of infos that are appended to fileQ, in listing order.
Enqueued(ex, infos) == SelectSeq(infos, LAMBDA realpath : ~ShouldExclude(ex, realpath))

\* A directory refused on open handled as a refused file is: skipped.
AfterDirErrorSkipsDenied(context, kind, cause) ==
    IF cause = "permission denied"
    THEN [pc |-> "walk", err |-> NoErr]
    ELSE [pc |-> "done", err |-> Err(kind, context, cause)]

\* Run, os.Open or Readdir of a directory having failed: the error is returned.
AfterDirError(context, kind, cause) == [pc |-> "done", err |-> Err(kind, context, cause)]

\* Run, the front item being a directory: it is opened and listed, and its
\* entries that no exclusion pattern matches are queued.
RunDir ==
    /\ pc = "walk"
    /\ fileQ # << >>
    /\ IsDir(Head(fileQ))
    /\ LET context == Head(fileQ)
       IN  /\ opened' = opened \cup {context}
           /\ \E open \in OpenOutcomes, list \in {"ok", "input/output error"} :
                 CASE open # "ok" ->
                        /\ pc' = AfterDirError(context, "open", open).pc
                        /\ err' = AfterDirError(context, "open", open).err
                        /\ fileQ' = Tail(fileQ)
                        /\ last' = [NoStep EXCEPT !.op = "Dir", !.path = context,
                                                  !.open = open]
                   [] open = "ok" /\ list # "ok" ->
                        /\ pc' = AfterDirError(context, "readdir", list).pc
                        /\ err' = AfterDirError(context, "readdir", list).err
                        /\ fileQ' = Tail(fileQ)
                        /\ last' = [NoStep EXCEPT !.op = "Dir", !.path = context,
                                                  !.open = open, !.list = list]
                   [] OTHER ->
                        /\ pc' = "walk"
                        /\ err' = NoErr
                        /\ fileQ' = Tail(fileQ)
                                      \o Enqueued(excludes, Readdir(context, order))
                        /\ last' = [NoStep EXCEPT !.op = "Dir", !.path = context,
                                                  !.open = open, !.list = list]
    /\ UNCHANGED <<optVars, dbVars, rootId, base, hashed, denied, lostRows, issued,
                   ensureCalls, runs>>
    /\ UNCHANGED hashVars

\* The first two cases of Run's switch: the item is dropped without being opened.
NotRegular(p) == ~IsRegular(p)

FailsInclude(inc, context) == Cardinality(inc) > 0 /\ ~Match(inc, context)

\* Run, the front item not being a directory and dropped by the switch.
RunSkip ==
    /\ pc = "walk"
    /\ fileQ # << >>
    /\ ~IsDir(Head(fileQ))
    /\ NotRegular(Head(fileQ)) \/ FailsInclude(includes, Head(fileQ))
    /\ fileQ' = Tail(fileQ)
    /\ last' = [NoStep EXCEPT !.op = "Skip", !.path = Head(fileQ)]
    /\ UNCHANGED <<pc, optVars, dbVars, rootId, err, histVars>>
    /\ UNCHANGED hashVars

\* HashAndCatalog, os.Open having failed: where Run stands afterwards and with
\* which error.  Permission denied is printed and nil is returned, so the
\* loop goes on; any other error is returned, and Run returns it.
AfterOpenError(realpath, open) ==
    IF open = "permission denied"
    THEN [pc |-> "walk", err |-> NoErr]
    ELSE [pc |-> "done", err |-> Err("open", realpath, open)]

\* A failed fingerprint handled as a refused file is: skipped.
AfterHashErrorSkips(realpath, hashErr) == [pc |-> "walk", err |-> NoErr]

\* HashAndCatalog, SmartHash having returned an error: it is returned with the
\* path put before it, and Run returns it.
AfterHashError(realpath, hashErr) ==
    [pc |-> "done", err |-> Err("hash", realpath, hashErr)]

\* Run, the front item being a regular file that passes the inclusion filter:
\* the default case of the switch, c.HashAndCatalog(rootId, cur).
RunHashAndCatalog ==
    /\ pc = "walk"
    /\ fileQ # << >>
    /\ ~IsDir(Head(fileQ))
    /\ ~(NotRegular(Head(fileQ)) \/ FailsInclude(includes, Head(fileQ)))
    /\ LET realpath == Head(fileQ)
           size == FileOf(realpath).size
       IN  /\ fileQ' = Tail(fileQ)
           /\ opened' = opened \cup {realpath}
           /\ \E open \in OpenOutcomes :
                 IF open # "ok"
                 THEN /\ pc' = AfterOpenError(realpath, open).pc
                      /\ err' = AfterOpenError(realpath, open).err
                      /\ denied' = IF open = "permission denied"
                                   THEN denied \cup {realpath} ELSE denied
                      /\ UNCHANGED <<files, hashed, lostRows>>
                      /\ last' = [NoStep EXCEPT !.op = "HashAndCatalog",
                                                !.path = realpath, !.open = open]
                 ELSE \E ln \in LengthsAtRead(size) :
                      \E fails \in ReadFailures(size, Threshold) :
                         LET smartHash == SmartHash(FileAt(realpath, ln), size,
                                                    Threshold, fails)
                         IN  /\ hashed' = hashed \cup {realpath}
                             /\ denied' = denied
                             /\ IF smartHash.err # "nil"
                                THEN /\ pc' = AfterHashError(realpath, smartHash.err).pc
                                     /\ err' = AfterHashError(realpath, smartHash.err).err
                                     /\ UNCHANGED <<files, lostRows>>
                                     /\ last' = [NoStep EXCEPT
                                                   !.op = "HashAndCatalog",
                                                   !.path = realpath, !.open = open,
                                                   !.len = ln, !.fails = fails,
                                                   !.hash = smartHash.err]
                                ELSE \E ins \in {"ok", "insert fails"} :
                                     /\ pc' = "walk"
                                     /\ err' = NoErr
                                     /\ files' = CatalogHash(files, rootId, smartHash.sum,
                                                             realpath, ModTime(realpath),
                                                             ins)
                                     /\ lostRows' = IF ins = "ok" THEN lostRows
                                                    ELSE lostRows \cup {realpath}
                                     /\ last' = [NoStep EXCEPT
                                                   !.op = "HashAndCatalog",
                                                   !.path = realpath, !.open = open,
                                                   !.len = ln, !.fails = fails,
                                                   !.hash = smartHash.err, !.ins = ins]
    /\ UNCHANGED <<optVars, schema, roots, rootId, base, issued, ensureCalls, runs>>
    /\ UNCHANGED hashVars

\* Run: the queue is empty, the loop breaks and nil is returned.
RunReturn ==
    /\ pc = "walk"
    /\ fileQ = << >>
    /\ pc' = "done"
    /\ err' = NoErr
    /\ last' = [NoStep EXCEPT !.op = "Return"]
    /\ UNCHANGED <<optVars, dbVars, rootId, fileQ, histVars>>
    /\ UNCHANGED hashVars

\* The program is started again, on the same catalog, with some root.
MainAgain ==
    /\ pc = "done"
    /\ runs < MaxRuns
    /\ runs' = runs + 1
    /\ \E r \in RootChoices : root' = r
    /\ pc' = "open"
    /\ err' = NoErr
    /\ base' = [roots |-> roots, files |-> files]
    /\ rootId' = 0
    /\ fileQ' = << >>
    /\ last' = NoStep
    /\ opened' = {}
    /\ hashed' = {}
    /\ denied' = {}
    /\ lostRows' = {}
    /\ ensureCalls' = 0
    /\ UNCHANGED <<excludes, includes, order, dbVars, issued>>
    /\ UNCHANGED hashVars

NoFile == [size |-> 0, len |-> 0, data |-> {}]

InitCatalog ==
    /\ pc = "open"
    /\ schema = FALSE
    /\ roots = {}
    /\ files = << >>
    /\ rootId = 0
    /\ fileQ = << >>
    /\ err = NoErr
    /\ base = [roots |-> {}, files |-> << >>]
    /\ last = NoStep
    /\ opened = {}
    /\ hashed = {}
    /\ denied = {}
    /\ lostRows = {}
    /\ issued = {}
    /\ ensureCalls = 0
    /\ runs = 1
    /\ hfile = NoFile
    /\ hfails = << >>
    /\ hres = [err |-> "nil", sum |-> 0]

\* One process, with any root, filters and listing order.
Init ==
    /\ InitCatalog
    /\ root \in RootChoices
    /\ excludes \in PatternSets
    /\ includes \in PatternSets
    /\ order \in ListingOrders

Next ==
    \/ OpenCatalog
    \/ RunStat
    \/ RunEnsureRootId
    \/ RunDir
    \/ RunSkip
    \/ RunHashAndCatalog
    \/ RunReturn

Spec == Init /\ [][Next]_vars

\* Processes one after the other on the same catalog, each on some root, all
\* with the subdirectories excluded.
InitRuns ==
    /\ InitCatalog
    /\ root \in RootChoices
    /\ excludes = { [parts |-> <<"d">>, tail |-> TRUE] }
    /\ includes = {}
    /\ order = <<"d", "f", "g", "s">>

NextRuns == Next \/ MainAgain

SpecRuns == InitRuns /\ [][NextRuns]_vars

(***************************************************************************)
(* singleton: SmartHash of one file, outside any catalog.                  *)
(***************************************************************************)
\* Bytes of a file that are not zero (the others are).
MaxBytes == 1

\* The offsets at which a file of that size may hold a byte that is not zero:
\* the first and last byte of each sample, and the bytes next to them.
ProbeOffsets(size) ==
    { o \in { 0, WindowSize - 1, WindowSize,
              (size \div 2) - 1, size \div 2, (size \div 2) + WindowSize - 1,
              (size \div 2) + WindowSize,
              size - WindowSize - 1, size - WindowSize, size - 1 } : o >= 0 /\ o < size }

\* The files of declared size sz: as long as declared, or shorter by half a
\* sample (cut after f.Stat() and before the reads).
FilesOfSize(sz) ==
    { [size |-> sz, len |-> ln, data |-> { <<o, 1>> : o \in { x \in D : x < ln } }] :
        ln \in { sz, sz - (WindowSize \div 2) },
        D \in { X \in SUBSET ProbeOffsets(sz) : Cardinality(X) <= MaxBytes } }

\* The files handed to singleton: just below, at and just above the threshold.
SingletonFiles == UNION { FilesOfSize(sz) : sz \in { Threshold - 1, Threshold, Threshold + 1 } }

\* singleton(file): hash, err := SmartHash(f, finfo, 512*1024).
Singleton ==
    /\ \E f \in SingletonFiles :
       \E fails \in ReadFailures(f.size, Threshold) :
          /\ hfile' = f
          /\ hfails' = fails
          /\ hres' = SmartHash(f, f.size, Threshold, fails)
    /\ UNCHANGED walkVars

InitHash ==
    /\ InitCatalog
    /\ root = <<"r">>
    /\ excludes = {}
    /\ includes = {}
    /\ order = <<"d", "f", "g", "s">>

NextHash == Singleton

SpecHash == InitHash /\ [][NextHash]_vars

(***************************************************************************)
(* What the properties speak of.                                           *)
(***************************************************************************)
\* The directory n levels deep: /r, /r/d, /r/d/d, ...
DirPath(n) == [i \in 1..n |-> IF i = 1 THEN "r" ELSE "d"]

\* Every path of the file system: the directories and what each one holds.
TreePaths ==
    { DirPath(n) : n \in 1..(MaxDepth + 1) }
        \cup { Join(DirPath(n), x) : n \in 1..MaxDepth, x \in Names }

\* TreePaths are the paths that exist.
TreePathsExist ==
    TreePaths =
        { p \in UNION { [1..n -> Names \cup {"r"}] : n \in 1..(MaxDepth + 1) } : Exists(p) }

\* p lies in the subtree of d, below d.
Under(p, d) == Len(p) > Len(d) /\ SubSeq(p, 1, Len(d)) = d

QueuedPaths == { fileQ[i] : i \in 1..Len(fileQ) }

\* The rows this process has added to files.
Recorded == SubSeq(files, Len(base.files) + 1, Len(files))

RecordedPaths == { Recorded[i].path : i \in 1..Len(Recorded) }

\* p was opened, fingerprinted or recorded by this process.
Touched(p) == p \in opened \/ p \in hashed \/ p \in RecordedPaths

\* A qualifying file: regular, below the root, neither it nor a directory above
\* it (below the root) matched by an exclusion pattern, not refused on open,
\* and matched by an inclusion pattern if there is any.
Qualifying(p) ==
    /\ p \in TreePaths
    /\ IsRegular(p)
    /\ Under(p, root)
    /\ \A k \in (Len(root) + 1)..Len(p) : ~Match(excludes, SubSeq(p, 1, k))
    /\ p \notin denied
    /\ includes = {} \/ Match(includes, p)

QualifyingFiles == { p \in TreePaths : Qualifying(p) }

\* Run has returned nil.
ReturnedNil == pc = "done" /\ err = NoErr

\* The root does not exist or is no directory.
BadRoot == ~Exists(root) \/ ~IsDir(root)

\* No step is taken once Run has returned (or main has panicked).
StopsWhenDone == [][pc # "done"]_vars

(***************************************************************************)
(* C1.                                                                     *)
(***************************************************************************)
\* Every path this process has queued, opened, fingerprinted or recorded.
Handled == QueuedPaths \cup opened \cup hashed \cup RecordedPaths

\* The files of the subtree of an excluded directory d are left alone.
Pruned(d, handled) ==
    IsDir(d) /\ Match(excludes, d) =>
        \A p \in handled : ~(Under(p, d) /\ ~IsDir(p))

\* C1 as stated: for every directory of the walk, the root included, that an
\* exclusion pattern matches, no file of its subtree is ever opened,
\* fingerprinted or recorded.
C1_PrunedRootIncluded ==
    LET handled == opened \cup hashed \cup RecordedPaths
    IN  \A d \in TreePaths : (d = root \/ Under(d, root)) => Pruned(d, handled)

\* C1, amended: for every directory below the root that an exclusion pattern
\* matches, no file of its subtree is ever queued, opened, fingerprinted or
\* recorded, whatever the inclusion patterns and the file's own path match.
C1_PrunedBelowRoot ==
    LET handled == Handled
    IN  \A d \in TreePaths : Under(d, root) => Pruned(d, handled)

\* The walk has finished and has recorded files, the directory d below the
\* root was listed and is excluded, and a file below d that no exclusion
\* pattern matches and the inclusion filter lets through was left out.
C1_Witness ==
    /\ ReturnedNil
    /\ RecordedPaths # {}
    /\ \E d \in TreePaths :
          /\ Under(d, root) /\ IsDir(d) /\ Match(excludes, d)
          /\ Dir(d) \in opened
          /\ \E p \in TreePaths :
                /\ Under(p, d) /\ IsRegular(p) /\ ~Match(excludes, p)
                /\ includes = {} \/ Match(includes, p)
                /\ ~Touched(p)

(***************************************************************************)
(* C2.                                                                     *)
(***************************************************************************)
\* C2: a file below the root whose path matches an exclusion pattern and an
\* inclusion pattern is never queued, never handed to HashAndCatalog (so never
\* opened or fingerprinted) and never recorded.
C2_ExclusionOverridesInclusion ==
    \A p \in Handled :
        ~(Under(p, root) /\ ~IsDir(p) /\ Match(excludes, p) /\ Match(includes, p))

\* The walk has finished and has recorded files, and a file matched by both
\* filters, in a directory that was listed, was left out.
C2_Witness ==
    /\ ReturnedNil
    /\ RecordedPaths # {}
    /\ \E p \in TreePaths :
          /\ Under(p, root) /\ IsRegular(p)
          /\ Match(excludes, p) /\ Match(includes, p)
          /\ Dir(p) \in opened /\ last.op = "Return"
          /\ ~Touched(p)

(***************************************************************************)
(* C3.                                                                     *)
(***************************************************************************)
\* C3 as stated: when Run returns nil, the rows recorded by the run are exactly
\* one for each qualifying file.
C3_OnePerQualifyingFile ==
    ReturnedNil =>
        /\ RecordedPaths = QualifyingFiles
        /\ Len(Recorded) = Cardinality(QualifyingFiles)

\* What the code does keep: the rows are one for each qualifying file whose
\* INSERT did not fail.
C3_UpToLostRows ==
    ReturnedNil =>
        /\ RecordedPaths = QualifyingFiles \ lostRows
        /\ Len(Recorded) = Cardinality(QualifyingFiles \ lostRows)
        /\ hashed = QualifyingFiles

(***************************************************************************)
(* C4.                                                                     *)
(***************************************************************************)
\* The file refused on open is skipped with nil and the walk goes on; a walk
\* that ends with nil has fingerprinted every qualifying file.
C4_DeniedSkipped ==
    /\ last.op = "HashAndCatalog" /\ last.open = "permission denied"
          => pc = "walk" /\ err = NoErr /\ last.path \notin RecordedPaths
              /\ last.path \notin hashed
    /\ ReturnedNil => \A p \in QualifyingFiles : p \in hashed

\* Once a file has been refused, every file fingerprinted after it is recorded.
C4_LaterFilesRecorded ==
    [][ /\ denied # {}
        /\ hashed' # hashed
        /\ last'.hash = "nil"
        => last'.path \in RecordedPaths' ]_vars

\* C4 as stated: a regular file refused on open makes HashAndCatalog return
\* nil with nothing recorded for it and the walk going on, and every qualifying
\* file handled after it is fingerprinted and recorded.
C4_DeniedDoesNotStopTheRest == []C4_DeniedSkipped /\ C4_LaterFilesRecorded

(***************************************************************************)
(* C5.                                                                     *)
(***************************************************************************)
\* SmartHash returned an error for the file handled last.
FingerprintFailed ==
    last.op = "HashAndCatalog" /\ last.open = "ok" /\ last.hash # "nil"

\* C5 as stated: after a failed fingerprint the file is skipped, nothing is
\* recorded for it, and the traversal goes on with the remaining files.
C5_FailedFingerprintSkipped ==
    FingerprintFailed =>
        pc = "walk" /\ err = NoErr /\ last.path \notin RecordedPaths

\* After a failed fingerprint Run has returned the error with the path, and
\* neither the file nor what was still queued is recorded.
C5_FailedFingerprintState ==
    FingerprintFailed =>
        /\ pc = "done"
        /\ err = Err("hash", last.path, last.hash)
        /\ last.path \notin RecordedPaths
        /\ \A q \in QueuedPaths : ~Touched(q)

\* C5, amended: a failed fingerprint is returned once, as the error of Run with
\* the path of the file in it, nothing is recorded for the file, and the
\* traversal ends there: the files still queued are neither opened,
\* fingerprinted nor recorded, and no step follows.
C5_FailedFingerprintAborts == []C5_FailedFingerprintState /\ StopsWhenDone

\* A fingerprint has failed while files were recorded before and entries are
\* still queued.
C5_Witness ==
    /\ FingerprintFailed
    /\ RecordedPaths # {}
    /\ fileQ # << >>

(***************************************************************************)
(* C6.                                                                     *)
(***************************************************************************)
\* Read i of the file handled last was made: fullHash makes one; sampleHash
\* makes the next one unless the one before met the end of the file.
ReadMade(i) ==
    \/ i = 1
    \/ /\ i = 2
       /\ last.fails[1] \/ last.len >= WindowSize
    \/ /\ i = 3
       /\ last.fails[1] \/ last.len >= WindowSize
       /\ last.fails[2] \/ last.len >= (FileOf(last.path).size \div 2) + WindowSize

\* A read of the file handled last failed with an I/O error.
ReadFailed ==
    /\ last.op = "HashAndCatalog"
    /\ last.open = "ok"
    /\ \E i \in DOMAIN last.fails : last.fails[i] /\ ReadMade(i)

\* C6 as stated: if any read of the file fails with an error other than the end
\* of the file, SmartHash returns an error, HashAndCatalog returns it with the
\* path of the file, and nothing is recorded for the file.
C6_ReadErrorSurfaces ==
    ReadFailed =>
        /\ pc = "done"
        /\ err.kind = "hash" /\ err.path = last.path
        /\ last.path \notin RecordedPaths

\* What the code does keep: a failure of the read made last (the copy of
\* fullHash, the third sample of sampleHash) is returned.
C6_LastReadErrorSurfaces ==
    /\ last.op = "HashAndCatalog"
    /\ last.open = "ok"
    /\ last.fails[Len(last.fails)] /\ ReadMade(Len(last.fails))
    => /\ pc = "done"
       /\ err.kind = "hash" /\ err.path = last.path
       /\ last.path \notin RecordedPaths

(***************************************************************************)
(* C7.                                                                     *)
(***************************************************************************)
\* The step made last failed to open or list a directory, or to open a file
\* for another reason than permission.
FatalStep ==
    \/ last.op = "Dir" /\ (last.open # "ok" \/ last.list # "ok")
    \/ last.op = "HashAndCatalog" /\ last.open \notin {"ok", "permission denied"}

\* After such a step Run has returned its error, with the path.
C7_FatalState ==
    FatalStep =>
        /\ pc = "done"
        /\ err = Err(IF last.open # "ok" THEN "open" ELSE "readdir", last.path,
                     IF last.open # "ok" THEN last.open ELSE last.list)
        /\ \A q \in QueuedPaths : ~Touched(q)

\* The step that returns the error records and fingerprints nothing.
C7_FatalStepRecordsNothing ==
    [][pc = "walk" /\ pc' = "done" /\ err'.kind \in {"open", "readdir"}
         => files' = files /\ hashed' = hashed]_vars

\* C7: when a directory cannot be opened (permission denied included) or
\* listed, or a file cannot be opened for another reason than permission, Run
\* returns that error at once: the step records nothing, the entries still
\* queued are never processed, and no step follows.
C7_OtherErrorsAreFatal ==
    []C7_FatalState /\ C7_FatalStepRecordsNothing /\ StopsWhenDone

\* A directory below the root was refused on open after files had been
\* recorded and with entries still queued.
C7_Witness ==
    /\ last.op = "Dir" /\ last.open = "permission denied"
    /\ last.path # root
    /\ pc = "done"
    /\ RecordedPaths # {}
    /\ fileQ # << >>

(***************************************************************************)
(* C8.                                                                     *)
(***************************************************************************)
\* C8: when the root does not exist or is no directory, the process ends with
\* an error and with the tables as they were when it started (no root id
\* created, no row recorded, EnsureRootId not called); EnsureRootId is only
\* ever called on a root that passed the check.
C8_RootCheckedBeforeAnyMutation ==
    /\ BadRoot /\ pc \notin {"open", "stat"} =>
          /\ pc = "done"
          /\ err.kind \in {"root", "open catalog"}
          /\ roots = base.roots
          /\ files = base.files
          /\ ensureCalls = 0
          /\ opened = {}
    /\ ensureCalls > 0 => ~BadRoot
    /\ roots # base.roots \/ files # base.files => ~BadRoot /\ ensureCalls > 0

\* A second process, started on a regular file as its root against a catalog
\* that holds roots and rows, has failed the check.
C8_Witness ==
    /\ pc = "done"
    /\ err.kind = "root" /\ err.msg = "is not a directory"
    /\ roots # {}
    /\ files # << >>
    /\ runs = 2

(***************************************************************************)
(* C9.                                                                     *)
(***************************************************************************)
\* C9: the table roots holds at most one row for a root and one root for an
\* id; EnsureRootId has returned the same id whenever it was called with the
\* same root and different ids for different roots, each the id of the row of
\* that root; and a process calls it at most once.
C9_RootIdsUniqueAndStable ==
    /\ \A a, b \in roots : (a.root = b.root \/ a.id = b.id) => a = b
    /\ \A x, y \in issued : (x[1] = y[1]) <=> (x[2] = y[2])
    /\ \A x \in issued : [id |-> x[2], root |-> x[1]] \in roots
    /\ ensureCalls <= 1

\* The second process has been given the id of the row the first one made.
C9_Witness ==
    /\ runs = 2
    /\ last.op = "EnsureRootId"
    /\ pc = "walk"
    /\ root \in { row.root : row \in base.roots }
    /\ roots = base.roots

(***************************************************************************)
(* C10.                                                                    *)
(***************************************************************************)
\* The three samples of a file: its bytes at offsets 0, size/2 and size-1024,
\* WindowSize of each.
SamplesOf(f) ==
    [i \in 1..3 |->
        LET off == <<0, f.size \div 2, f.size - WindowSize>>[i]
        IN  { <<x[1] - off, x[2]>> :
                x \in { y \in f.data : y[1] >= off /\ y[1] < off + WindowSize } }]

\* Two fingerprints that SmartHash returned one after the other, of files of
\* the same declared size.
SameSizeBothHashed ==
    /\ hres.err = "nil"
    /\ hres'.err = "nil"
    /\ hfile.size = hfile'.size

\* Samples and size decide the fingerprint at or above the threshold, the
\* whole content does below it.
C10_Step ==
    /\ SameSizeBothHashed /\ hfile.size >= Threshold /\ SamplesOf(hfile) = SamplesOf(hfile')
          => hres'.sum = hres.sum
    /\ SameSizeBothHashed /\ hfile.size < Threshold
          => (hres'.sum = hres.sum <=> hfile'.len = hfile.len /\ hfile'.data = hfile.data)

\* C10 as stated: at or above the threshold two files of equal declared size
\* with the same three samples get the same fingerprint, whatever their other
\* bytes; below it the whole content is hashed.
C10_SamplesAndSizeDecide == [][C10_Step]_vars

\* What the code does keep: the same, when no read of either file fails.
C10_WithoutReadErrors ==
    [][ (\A i \in DOMAIN hfails : ~hfails[i]) /\ (\A i \in DOMAIN hfails' : ~hfails'[i])
        => C10_Step ]_vars

====
